---- MODULE Spec2Model ----
(***************************************************************************)
(* The vault of the AI Employee (Silver Tier) as a state machine.          *)
(*                                                                         *)
(* The vault is a directory of folders; a task record is one .md file and  *)
(* the folder it lies in is its lifecycle state.  The writers are          *)
(*   - the producers: the Inbox file-drop handler, the Gmail, WhatsApp and *)
(*     LinkedIn watchers and the alert writers of the daily briefing and   *)
(*     the weekly audit, which create files in Needs_Action under a name   *)
(*     made of a clock reading and a suffix;                               *)
(*   - the external processor and approver (a person, or Claude Code run   *)
(*     by hand), which move files Needs_Action -> Pending_Approval ->      *)
(*     Approved | Rejected;                                                *)
(*   - the orchestrator, whose pass is process_approved_actions,           *)
(*     process_rejected_actions, trigger_claude_processing,                *)
(*     update_dashboard, sleep.                                            *)
(* A pass is not atomic with respect to the other writers, so it is        *)
(* modelled statement by statement (read, log, move per Approved file).    *)
(* All folders lie under one vault_path, so shutil.move is os.rename: one  *)
(* atomic step that replaces a file of the same name at the destination.   *)
(*                                                                         *)
(* Spec is the regular installation: one orchestrator, the drop handler,   *)
(* Gmail, the briefing, the external writers, I/O faults and the clock.    *)
(* SpecTwo runs two orchestrator processes on one vault, SpecProducers     *)
(* every producer without an orchestrator, SpecDashboard update_dashboard  *)
(* with every count row of Dashboard.md on a drawn vault, and SpecAudit    *)
(* the weekly audit on a drawn vault and clock.  SpecStall is a pass over  *)
(* one approved record under faults with the audit, SpecRestart the        *)
(* regular installation with a process that is killed and started again,   *)
(* SpecWeek the audit on a clock of two weeks, SpecWatchers one watcher    *)
(* process polling a source beside the drop handler, and SpecWatchersLive  *)
(* the same under weak fairness of the watcher's loop.                     *)
(***************************************************************************)
EXTENDS Integers, Sequences, FiniteSets, Bags, TLC

\* ------------------------------------------------------------------ bounds
MaxTime == 1          \* the clock runs over 0..MaxTime (seconds)
MaxCreated == 2       \* at most this many records are ever created
MaxFaults == 1        \* at most this many I/O faults are present at once
MaxLog == 2           \* a pass starts only while the action log is shorter
MaxCount == 2         \* a folder drawn for update_dashboard holds 0..MaxCount files
MaxAgeDays == 8       \* a file drawn for the weekly audit is 0..MaxAgeDays days old
MaxStalled == 3       \* the failures of one record in a row are counted up to this

\* strftime('%Y-%m-%d_%H%M'): the seconds of one reading of the minute.
SecondsPerMinute == 60

\* timedelta(days=1) and strftime('%Y%m%d'): the seconds of one day.
SecondsPerDay == 86400

\* timedelta(days=7): the days of a week.
DaysPerWeek == 7

\* if age_days > 3: the staleness threshold of Needs_Action, in days.
StaleDays == 3

\* if len(self.processed_chats) > 100: ... [-50:]
TrimChatsAbove == 100
KeepChats == 50

\* if len(self.processed_posts) > 100: ... [-50:]
TrimPostsAbove == 100
KeepPosts == 50

\* if len(self.processed_messages) > 50: ... [-25:]
TrimMessagesAbove == 50
KeepMessages == 25

\* ------------------------------------------------------------- the vault
NeedsAction == "Needs_Action"
PendingApproval == "Pending_Approval"
Approved == "Approved"
Rejected == "Rejected"
Done == "Done"

\* AIEmployeeOrchestrator.__init__: the lifecycle folders of the vault.
Folders == {NeedsAction, PendingApproval, Approved, Rejected, Done}

\* The Inbox paths the drop handler can see, as <<stem, suffix>>: two files
\* of one stem.
Sources ==
    {<<<<"r", "e", "p">>, ".txt">>, <<<<"r", "e", "p">>, ".pdf">>}

\* Path.stem of an Inbox path.
Stem(source) == source[1]

\* The unread messages Gmail can return, their subjects as sequences of
\* characters: "Re: Inv" and "Re Inv".
Emails ==
    {[id |-> 1, subject |-> <<"R", "e", ":", " ", "I", "n", "v">>],
     [id |-> 2, subject |-> <<"R", "e", " ", "I", "n", "v">>]}

\* full_email['subject'][:30]
SubjectLimit == 30

\* c.isalnum() for the characters of the subjects above and their like.
IsAlnum(c) ==
    c \in {"a", "b", "c", "d", "e", "f", "g", "h", "i", "j", "k", "l", "m", "n", "o", "p", "q", "r", "s", "t", "u", "v", "w", "x", "y", "z",
           "A", "B", "C", "D", "E", "F", "G", "H", "I", "J", "K", "L", "M", "N", "O", "P", "Q", "R", "S", "T", "U", "V", "W", "X", "Y", "Z",
           "0", "1", "2", "3", "4", "5", "6", "7", "8", "9"}

\* c.isalnum() or c in ' -_'
IsSafeChar(c) == IsAlnum(c) \/ c \in {" ", "-", "_"}

\* str.strip() of a sequence whose only white space is " ".
RECURSIVE Strip(_)
Strip(q) ==
    IF q = <<>> THEN q
    ELSE IF Head(q) = " " THEN Strip(Tail(q))
    ELSE IF q[Len(q)] = " " THEN Strip(SubSeq(q, 1, Len(q) - 1))
    ELSE q

\* The sanitising of a subject, chat name, author or sender that all the
\* watchers share: the first characters of the text, the unsafe ones
\* dropped, stripped, blanks turned to underscores, and the fallback when
\* nothing is left.
Sanitize(text, fallback) ==
    LET cut == SubSeq(text, 1,
                      IF Len(text) < SubjectLimit THEN Len(text)
                      ELSE SubjectLimit)
        kept == Strip(SelectSeq(cut, IsSafeChar))
        under == [i \in 1..Len(kept) |-> IF kept[i] = " " THEN "_" ELSE kept[i]]
    IN  IF under = <<>> THEN fallback ELSE under

\* safe_subject of a message, with 'No_Subject' for an empty one.
SafeSubject(email) ==
    Sanitize(email.subject,
             <<"N", "o", "_", "S", "u", "b", "j", "e", "c", "t">>)

\* The urgent chats a scan of WhatsApp Web can return: two chats whose
\* names are "Al!" and "Al".
Chats ==
    {[chat_name |-> <<"A", "l", "!">>, timestamp |-> "10:01"],
     [chat_name |-> <<"A", "l">>, timestamp |-> "10:02"]}

\* safe_chat_name, safe_author and safe_from, with 'Unknown' for an empty one.
SafeName(text) == Sanitize(text, <<"U", "n", "k", "n", "o", "w", "n">>)

\* The items a scan of LinkedIn can return: a post and a message of "Bo".
LinkedInItems ==
    {[type |-> "post", author |-> <<"B", "o">>, post_idx |-> 0],
     [type |-> "message", from |-> <<"B", "o">>]}

\* The watchers that poll their source in BaseWatcher.run.
Watchers == {"gmail", "whatsapp", "linkedin"}

\* The watcher processes: these and the watcher of the Inbox folder, whose
\* check_for_updates returns no item.
Detectors == Watchers \cup {"filesystem"}

\* No key of an item that is gone from its source.
NoOthers == [chats |-> 0, posts |-> 0, messages |-> 0, ids |-> 0, files |-> 0]

\* The orchestrator processes that can be started on one vault: nothing in
\* __main__ or run() keeps a second process from being started.
Orchestrators == {1, 2}

\* The one process of a regular installation.
Started == {1}

\* The statements of process_approved_actions' try block that can raise.
Stages == {"read", "log", "move"}

VARIABLES
    now,              \* datetime.now(), in seconds
    vault,            \* folder -> set of files [name, content, mtime]
    created,          \* every content ever written by a producer
    processed_files,  \* DropFolderHandler.processed_files
    processed_ids,    \* GmailWatcher.processed_ids
    briefings,        \* number of briefing runs so far
    faults,           \* I/O conditions of the environment: [name, stage]
    log,              \* Logs/orchestrator_<date>.log, its entries in order
    dashboard,        \* Dashboard.md: {} when missing, else {its counts}
    pc,               \* orchestrator -> its position in run()
    queue,            \* orchestrator -> approved_files still to iterate
    cur,              \* orchestrator -> {the path f of the loop body}
    errors,           \* orchestrator -> names logger.error reported this pass
    start,            \* orchestrator -> what the pass found when it began
    moves,            \* orchestrator -> files moved in this pass
    quiet,            \* passes begun since the last external change (<= 2)
    busy,             \* the first of these passes has moved a file
    placed,           \* bag of the names the approver has put into Approved
    processed_chats,  \* WhatsAppWatcher.processed_chats
    processed_posts,  \* LinkedInWatcher.processed_posts
    processed_messages, \* LinkedInWatcher.processed_messages
    audits,           \* number of weekly audit runs so far
    bottlenecks,      \* the bottleneck list of the last weekly audit
    plans,            \* the files of Plans: [name, status]
    failed,           \* bag of the names whose processing raised, pass after pass
    batch,            \* started watcher -> the items of run()'s for loop to come
    others            \* processed set -> the number of its keys of items gone
                      \* from the source (the sets above hold the other keys)

producerVars == <<created, processed_files, processed_ids, briefings>>
watcherVars == <<processed_chats, processed_posts, processed_messages, batch,
                 others>>
reportVars == <<audits, bottlenecks, plans>>
passVars == <<pc, queue, cur, errors, start, moves, failed>>
historyVars == <<quiet, busy>>
vars == <<now, vault, created, processed_files, processed_ids, briefings,
          faults, log, dashboard, pc, queue, cur, errors, start, moves,
          quiet, busy, placed, processed_chats, processed_posts,
          processed_messages, audits, bottlenecks, plans, failed, batch,
          others>>

\* ------------------------------------------------------ file operations
\* The names of the *.md files of a folder (folder.glob('*.md')).
Glob(v, folder) == {f.name : f \in v[folder]}

\* Whether a path exists.
Exists(v, folder, name) == name \in Glob(v, folder)

\* The file of this name in a folder.
FileAt(v, folder, name) == CHOOSE f \in v[folder] : f.name = name

\* The content of an existing file.
ReadText(v, folder, name) == FileAt(v, folder, name).content

\* A write that lands in Pending_Approval whatever folder it was meant for.
WriteTextElsewhere(v, folder, name, content, t) ==
    [v EXCEPT ![PendingApproval] =
        {f \in @ : f.name # name}
            \cup {[name |-> name, content |-> content, mtime |-> t]}]

\* Path.write_text at time t: creates the file, or truncates and rewrites
\* one that is already there under the same name; st_mtime becomes t.
WriteText(v, folder, name, content, t) ==
    [v EXCEPT ![folder] =
        {f \in @ : f.name # name}
            \cup {[name |-> name, content |-> content, mtime |-> t]}]

\* shutil.copy2(src/name, dst/name): the content and st_mtime of the file
\* are written under the same name at the destination.
ShutilCopy(v, src, dst, name) ==
    [v EXCEPT ![dst] = {f \in @ : f.name # name} \cup {FileAt(v, src, name)}]

\* shutil.move(src/name, dst/name) on one filesystem: os.rename, which
\* replaces a file already at the destination and keeps st_mtime.
ShutilMove(v, src, dst, name) ==
    [ShutilCopy(v, src, dst, name) EXCEPT
        ![src] = {f \in @ : f.name # name}]

\* The move to Done done as a copy: the source stays in place.
CopyToDone(v, f) == ShutilCopy(v, f[1], Done, f[2])

\* dest = self.done / f.name; shutil.move(str(f), str(dest)).
MoveToDone(v, f) == ShutilMove(v, f[1], Done, f[2])

\* The folders a content is found in.
FoldersOf(v, content) == {d \in Folders : \E f \in v[d] : f.content = content}

EmptyVault == [d \in Folders |-> {}]

\* ------------------------------------------------------------- dashboard
\* The counts update_dashboard takes from the folders.
CountFiles(v, folder) == Cardinality(v[folder])

\* _create_dashboard: the count lines of the new file that update_dashboard
\* rewrites later on.
CreateDashboard(na, dn, pa) ==
    [pending_actions |-> na, completed_tasks |-> dn, awaiting_approval |-> pa,
     approvals_pending |-> pa, files_in_needs_action |-> na,
     tasks_completed |-> dn]

\* The re.sub calls of update_dashboard on an existing file: the lines they
\* match are rewritten, the other lines stay as they were.
RewriteDashboard(d, na, dn, pa) ==
    [d EXCEPT !.pending_actions = na, !.completed_tasks = dn,
              !.awaiting_approval = pa, !.approvals_pending = pa,
              !.files_in_needs_action = na, !.tasks_completed = dn]

\* update_dashboard.
UpdateDashboard(v, dash) ==
    LET na == CountFiles(v, NeedsAction)
        dn == CountFiles(v, Done)
        pa == CountFiles(v, PendingApproval)
    IN  IF dash = {} THEN {CreateDashboard(na, dn, pa)}
        ELSE {RewriteDashboard(d, na, dn, pa) : d \in dash}

\* Dashboard.md with every row that shows a count.  Spec keeps of the file
\* only the rows above, which update_dashboard rewrites; the operators below
\* keep them all: the four lines of Today's Summary, the two count rows of
\* Silver Tier Metrics and the five rows of Quick Stats.
CreateDashboardRows(na, dn, pa, pl) ==
    [pending_actions |-> na, completed_tasks |-> dn, awaiting_approval |-> pa,
     plans_created |-> pl,
     metrics_plans_created |-> pl, approvals_pending |-> pa,
     files_in_needs_action |-> na, stats_plans_created |-> pl,
     tasks_completed |-> dn, files_processed_today |-> dn,
     watcher_detections |-> na]

\* The re.sub calls of update_dashboard: '- Plans Created: \d+' matches the
\* summary line and not the table rows '| Plans Created | n |', and no
\* pattern matches 'Files Processed Today' or 'Watcher Detections'.
RewriteDashboardRows(d, na, dn, pa, pl) ==
    [d EXCEPT !.pending_actions = na, !.completed_tasks = dn,
              !.awaiting_approval = pa, !.plans_created = pl,
              !.approvals_pending = pa, !.files_in_needs_action = na,
              !.tasks_completed = dn]

\* check_active_plans: the files of Plans with 'status: in_progress'.
check_active_plans(pl) == {f \in pl : f.status = "in_progress"}

\* update_dashboard, all rows.
UpdateDashboardRows(v, pl, dash) ==
    LET na == CountFiles(v, NeedsAction)
        dn == CountFiles(v, Done)
        pa == CountFiles(v, PendingApproval)
        ap == Cardinality(check_active_plans(pl))
    IN  IF dash = {} THEN {CreateDashboardRows(na, dn, pa, ap)}
        ELSE {RewriteDashboardRows(d, na, dn, pa, ap) : d \in dash}

\* ------------------------------------------------------------------ Init
\* What a pass remembers of its beginning: the number of files of Done,
\* the length of the action log and the number of files it found in
\* Approved.
NoStart == [done |-> 0, loglen |-> 0, found |-> 0]

Init ==
    /\ now = 0
    /\ vault = EmptyVault
    /\ created = {}
    /\ processed_files = {}
    /\ processed_ids = {}
    /\ briefings = 0
    /\ faults = {}
    /\ log = <<>>
    /\ dashboard = {}
    /\ pc = [p \in Orchestrators |-> "idle"]
    /\ queue = [p \in Orchestrators |-> {}]
    /\ cur = [p \in Orchestrators |-> {}]
    /\ errors = [p \in Orchestrators |-> {}]
    /\ start = [p \in Orchestrators |-> NoStart]
    /\ moves = [p \in Orchestrators |-> 0]
    /\ quiet = 0
    /\ busy = FALSE
    /\ placed = EmptyBag
    /\ processed_chats = {}
    /\ processed_posts = {}
    /\ processed_messages = {}
    /\ batch = [w \in Detectors |-> <<>>]
    /\ others = NoOthers
    /\ audits = 0
    /\ bottlenecks = {}
    /\ plans = {}
    /\ failed = EmptyBag

\* ------------------------------------------------------------- producers
\* Any write by a producer, the external processor or the approver, and any
\* change of the I/O conditions, is a change external to the orchestrator.
ExternalChange == quiet' = 0 /\ busy' = FALSE

\* DropFolderHandler.on_created with create_action_file: the handler sleeps
\* a second, then writes FILE_<timestamp>_<stem>.md; source.stat() raises
\* when the dropped file is gone again, and then nothing is written.
on_created(source) ==
    /\ "filesystem" \in DOMAIN batch
    /\ source \notin processed_files
    /\ Cardinality(created) < MaxCreated
    /\ \E t \in (now + 1)..MaxTime, stat_ok \in BOOLEAN :
        /\ now' = t
        /\ IF stat_ok
           THEN /\ vault' = WriteText(vault, NeedsAction,
                                      <<"FILE", t, Stem(source)>>,
                                      <<"FILE", source>>, t)
                /\ created' = created \cup {<<"FILE", source>>}
                /\ processed_files' = processed_files \cup {source}
                /\ ExternalChange
           ELSE UNCHANGED <<vault, created, processed_files, historyVars>>
    /\ UNCHANGED <<processed_ids, briefings, faults, log, dashboard, passVars,
                   placed, watcherVars, reportVars>>

\* GmailWatcher.check_for_updates (the filter on processed_ids) with
\* create_action_file: writes EMAIL_<timestamp>_<safe_subject>.md.
gmail_create_action_file(email) ==
    /\ email.id \notin processed_ids
    /\ Cardinality(created) < MaxCreated
    /\ vault' = WriteText(vault, NeedsAction,
                          <<"EMAIL", now, SafeSubject(email)>>,
                          <<"EMAIL", email.id>>, now)
    /\ created' = created \cup {<<"EMAIL", email.id>>}
    /\ processed_ids' = processed_ids \cup {email.id}
    /\ ExternalChange
    /\ UNCHANGED <<now, processed_files, briefings, faults, log, dashboard,
                   passVars, placed, watcherVars, reportVars>>

\* DailyBriefingGenerator.generate_briefing: besides the report in
\* Briefings it writes the alert BRIEFING_<date>_<HHMM>.md to Needs_Action.
generate_briefing ==
    /\ Cardinality(created) < MaxCreated
    /\ vault' = WriteText(vault, NeedsAction,
                          <<"BRIEFING", now \div SecondsPerMinute, <<>>>>,
                          <<"BRIEFING", briefings + 1>>, now)
    /\ created' = created \cup {<<"BRIEFING", briefings + 1>>}
    /\ briefings' = briefings + 1
    /\ ExternalChange
    /\ UNCHANGED <<now, processed_files, processed_ids, faults, log,
                   dashboard, passVars, placed, watcherVars, reportVars>>

\* WhatsAppWatcher.check_for_updates (the filter on processed_chats) with
\* create_action_file: writes WHATSAPP_<timestamp>_<safe_chat_name>.md, as
\* one step of a producer; the polling loop with the trimming of
\* processed_chats is whatsapp_check_for_updates and create_action_file(w).
whatsapp_create_action_file(message) ==
    LET chat_key == <<message.chat_name, message.timestamp>>
    IN  /\ chat_key \notin processed_chats
        /\ Cardinality(created) < MaxCreated
        /\ vault' = WriteText(vault, NeedsAction,
                              <<"WHATSAPP", now, SafeName(message.chat_name)>>,
                              <<"WHATSAPP", chat_key>>, now)
        /\ created' = created \cup {<<"WHATSAPP", chat_key>>}
        /\ processed_chats' = processed_chats \cup {chat_key}
        /\ ExternalChange
        /\ UNCHANGED <<now, processed_files, processed_ids, briefings, faults,
                       log, dashboard, passVars, placed, processed_posts,
                       processed_messages, batch, others, reportVars>>

\* LinkedInWatcher.check_for_updates (the filter on processed_posts and
\* processed_messages; a message's key holds the day) with
\* create_action_file: writes LINKEDIN_POST_<timestamp>_<safe_author>.md or
\* LINKEDIN_MSG_<timestamp>_<safe_from>.md.
linkedin_create_action_file(item) ==
    LET item_key == IF item.type = "post"
                    THEN <<"post", item.author, item.post_idx>>
                    ELSE <<"message", item.from, now \div SecondsPerDay>>
        name == IF item.type = "post"
                THEN <<"LINKEDIN_POST", now, SafeName(item.author)>>
                ELSE <<"LINKEDIN_MSG", now, SafeName(item.from)>>
    IN  /\ item_key \notin processed_posts
        /\ item_key \notin processed_messages
        /\ Cardinality(created) < MaxCreated
        /\ vault' = WriteText(vault, NeedsAction, name,
                              <<"LINKEDIN", item_key>>, now)
        /\ created' = created \cup {<<"LINKEDIN", item_key>>}
        /\ IF item.type = "post"
           THEN /\ processed_posts' = processed_posts \cup {item_key}
                /\ UNCHANGED processed_messages
           ELSE /\ processed_messages' = processed_messages \cup {item_key}
                /\ UNCHANGED processed_posts
        /\ ExternalChange
        /\ UNCHANGED <<now, processed_files, processed_ids, briefings, faults,
                       log, dashboard, passVars, placed, processed_chats,
                       batch, others, reportVars>>

\* ------------------------------------------------------ the weekly audit
\* datetime.weekday() of a clock reading; second 0 is a Monday, 00:00.
Weekday(t) == (t \div SecondsPerDay) % DaysPerWeek

\* get_week_start: date - timedelta(days=date.weekday()): the Monday of the
\* week, at the time of day of the reading.
get_week_start(t) == t - Weekday(t) * SecondsPerDay

\* get_files_in_week: the files of a folder modified within the week.
get_files_in_week(v, folder, week_start) ==
    {f \in v[folder] :
        /\ week_start <= f.mtime
        /\ f.mtime < week_start + DaysPerWeek * SecondsPerDay}

\* get_previous_week_files: the files of the week before.
get_previous_week_files(v, folder, week_start) ==
    get_files_in_week(v, folder, week_start - DaysPerWeek * SecondsPerDay)

\* age_days = (now - mtime).days
age_days(t, f) == (t - f.mtime) \div SecondsPerDay

\* What extract_field returns for a field the content does not have: None,
\* a value with no reading.
NoField == [zone |-> "None"]

\* extract_field(content, 'expires'): only an approval request, a content
\* <<"APPROVAL", request, expires>>, has the line.
extract_expires(content) ==
    IF content[1] = "APPROVAL" THEN content[3] ELSE NoField

\* The zone suffixes an ISO timestamp is written with; a value of expires
\* is [reading, zone], the clock reading and the suffix.
Zones == {"", "Z", "+00:00", "+05:00"}

\* The seconds the clock of a zone is ahead of UTC; the machine's own clock,
\* which datetime.now() reads, is taken to run on UTC.
UtcOffset(zone) == IF zone = "+05:00" THEN 5 * 60 * SecondsPerMinute ELSE 0

\* The instant a value of expires denotes, on the machine's clock.
Instant(expires) == expires.reading - UtcOffset(expires.zone)

\* expires.replace('Z', '+00:00').replace('+00:00', '')
StripUtc(zone) == IF zone \in {"Z", "+00:00"} THEN "" ELSE zone

\* datetime.now() > expiry_date, with expiry_date from fromisoformat: a
\* timestamp that still has an offset parses to an aware datetime, the
\* comparison with the naive now raises TypeError, and the except clause
\* passes over the file.
ExpiryPassed(t, expires) ==
    /\ StripUtc(expires.zone) = ""
    /\ t > expires.reading

\* analyze_bottlenecks: the old items of Needs_Action and the expired
\* approvals, by issue and file name.
analyze_bottlenecks(t, needs_action_files, pending_files) ==
    {[issue |-> "Item in Needs_Action", item |-> f.name] :
        f \in {g \in needs_action_files : age_days(t, g) > StaleDays}}
    \cup
    {[issue |-> "Approval expired", item |-> f.name] :
        f \in {g \in pending_files :
                  /\ extract_expires(g.content) # NoField
                  /\ ExpiryPassed(t, extract_expires(g.content))}}

\* WeeklyAuditGenerator.generate_audit: the week's files of Needs_Action and
\* the files of Pending_Approval are analysed, the report goes to Briefings
\* and the alert WEEKLY_AUDIT_READY_<date>_<HHMM>.md to Needs_Action.
generate_audit ==
    /\ Cardinality(created) < MaxCreated
    /\ LET week_start == get_week_start(now)
           needs_action_files ==
               get_files_in_week(vault, NeedsAction, week_start)
           pending_files == vault[PendingApproval]
       IN  bottlenecks' =
               analyze_bottlenecks(now, needs_action_files, pending_files)
    /\ vault' = WriteText(vault, NeedsAction,
                          <<"WEEKLY_AUDIT_READY", now \div SecondsPerMinute,
                            <<>>>>,
                          <<"AUDIT", audits + 1>>, now)
    /\ created' = created \cup {<<"AUDIT", audits + 1>>}
    /\ audits' = audits + 1
    /\ ExternalChange
    /\ UNCHANGED <<now, processed_files, processed_ids, briefings, faults, log,
                   dashboard, passVars, placed, watcherVars, plans>>

\* ------------------------------------------------- external actors, clock
\* A hand move of one file between two folders; nobody drops a file onto
\* another of the same name.
HandMove(src, dst, name) ==
    /\ Exists(vault, src, name)
    /\ ~Exists(vault, dst, name)
    /\ vault' = ShutilMove(vault, src, dst, name)
    /\ placed' = IF dst = Approved THEN placed (+) SetToBag({name}) ELSE placed
    /\ ExternalChange
    /\ UNCHANGED <<now, producerVars, faults, log, dashboard, passVars,
                   watcherVars, reportVars>>

\* The external processor ('Run: claude "Process all files in Needs_Action
\* folder"') files a record for approval.
ExternalRoute(name) == HandMove(NeedsAction, PendingApproval, name)

\* The approver's decisions on a pending record.
ExternalApprove(name) == HandMove(PendingApproval, Approved, name)

ExternalReject(name) == HandMove(PendingApproval, Rejected, name)

\* An I/O condition sets in: from now on `stage` raises for this file.
FaultSetsIn(name, stage) ==
    /\ Exists(vault, Approved, name)
    /\ Cardinality(faults) < MaxFaults
    /\ [name |-> name, stage |-> stage] \notin faults
    /\ faults' = faults \cup {[name |-> name, stage |-> stage]}
    /\ ExternalChange
    /\ UNCHANGED <<now, vault, producerVars, log, dashboard, passVars, placed,
                   watcherVars, reportVars>>

\* An I/O condition goes away.
FaultClears(x) ==
    /\ x \in faults
    /\ faults' = faults \ {x}
    /\ ExternalChange
    /\ UNCHANGED <<now, vault, producerVars, log, dashboard, passVars, placed,
                   watcherVars, reportVars>>

\* The clock advances.
Tick ==
    /\ now < MaxTime
    /\ now' = now + 1
    /\ UNCHANGED <<vault, producerVars, faults, log, dashboard, passVars,
                   historyVars, placed, watcherVars, reportVars>>

\* ---------------------------------------------------------- orchestrator
envVars == <<now, producerVars, faults, placed, watcherVars, reportVars>>

\* A listing that takes the files of Pending_Approval for approved ones.
check_pending_as_approved(v) ==
    {<<PendingApproval, n>> : n \in Glob(v, PendingApproval)}

\* check_approved_actions: the paths of the *.md files of Approved.
check_approved_actions(v) == {<<Approved, n>> : n \in Glob(v, Approved)}

\* Whether `stage` raises for the file of this name.
Raises(name, stage) == [name |-> name, stage |-> stage] \in faults

\* run(), top of the loop, and the first line of process_approved_actions:
\* the Approved folder is listed once, before the loop over it.
PassStart(p) ==
    /\ pc[p] = "idle"
    /\ Len(log) < MaxLog
    /\ queue' = [queue EXCEPT ![p] = check_approved_actions(vault)]
    /\ pc' = [pc EXCEPT ![p] = "approved"]
    /\ start' = [start EXCEPT ![p] = [done |-> CountFiles(vault, Done),
                                      loglen |-> Len(log),
                                      found |-> CountFiles(vault, Approved)]]
    /\ quiet' = IF quiet < 2 THEN quiet + 1 ELSE 2
    /\ UNCHANGED <<envVars, vault, log, dashboard, cur, errors, moves, busy,
                   failed>>

\* One more failure in a row of the record of this name, which is counted
\* while the record lies in Approved.
Again(b, name) ==
    IF Exists(vault, Approved, name) /\ CopiesIn(name, b) < MaxStalled
    THEN b (+) SetToBag({name})
    ELSE b

\* The record of this name was processed: its failures in a row are over.
Forget(b, name) == [n \in DOMAIN b \ {name} |-> b[n]]

\* An except clause that gives the pass up: the rest of approved_files is
\* left and run() goes straight to its sleep.
HandleErrorAborts(p, f) ==
    /\ errors' = [errors EXCEPT ![p] = @ \cup {f[2]}]
    /\ failed' = Again(failed, f[2])
    /\ pc' = [pc EXCEPT ![p] = "sleep"]
    /\ cur' = [cur EXCEPT ![p] = {}]

\* except Exception: logger.error names the file; the loop goes on.
HandleError(p, f) ==
    /\ errors' = [errors EXCEPT ![p] = @ \cup {f[2]}]
    /\ failed' = Again(failed, f[2])
    /\ pc' = [pc EXCEPT ![p] = "approved"]
    /\ cur' = [cur EXCEPT ![p] = {}]

\* for f in approved_files: content = f.read_text(...), extract_field.
ApprovedRead(p) ==
    /\ pc[p] = "approved"
    /\ \E f \in queue[p] :
        /\ queue' = [queue EXCEPT ![p] = @ \ {f}]
        /\ IF Exists(vault, f[1], f[2]) /\ ~Raises(f[2], "read")
           THEN /\ cur' = [cur EXCEPT ![p] = {f}]
                /\ pc' = [pc EXCEPT ![p] = "log"]
                /\ UNCHANGED <<errors, failed>>
           ELSE HandleError(p, f)
    /\ UNCHANGED <<envVars, vault, log, dashboard, start, moves, historyVars>>

\* log_entry: 'Processed approval: <name> (action: ...)'.
LogEntry(name) == [entry |-> "Processed approval", name |-> name]

\* The log step with the write left out.
ApprovedLogSkipped(p) ==
    /\ pc[p] = "log"
    /\ pc' = [pc EXCEPT ![p] = "move"]
    /\ UNCHANGED <<envVars, vault, log, dashboard, queue, cur, errors, start,
                   moves, historyVars, failed>>

\* self._write_log(log_entry): 'Processed approval: <name>' is appended to
\* the day's log file.
ApprovedLog(p) ==
    /\ pc[p] = "log"
    /\ \E f \in cur[p] :
        IF Raises(f[2], "log")
        THEN /\ HandleError(p, f)
             /\ UNCHANGED log
        ELSE /\ log' = Append(log, LogEntry(f[2]))
             /\ pc' = [pc EXCEPT ![p] = "move"]
             /\ UNCHANGED <<cur, errors, failed>>
    /\ UNCHANGED <<envVars, vault, dashboard, queue, start, moves, historyVars>>

\* The move of the loop body; it raises when the file is gone or cannot be
\* renamed.
ApprovedMove(p) ==
    /\ pc[p] = "move"
    /\ \E f \in cur[p] :
        IF Exists(vault, f[1], f[2]) /\ ~Raises(f[2], "move")
        THEN /\ vault' = MoveToDone(vault, f)
             /\ moves' = [moves EXCEPT ![p] = @ + 1]
             /\ busy' = (busy \/ quiet = 1)
             /\ pc' = [pc EXCEPT ![p] = "approved"]
             /\ cur' = [cur EXCEPT ![p] = {}]
             /\ failed' = Forget(failed, f[2])
             /\ UNCHANGED errors
        ELSE /\ HandleError(p, f)
             /\ UNCHANGED <<vault, moves, busy>>
    /\ UNCHANGED <<envVars, log, dashboard, queue, start, quiet>>

\* process_rejected_actions, called when the loop over approved_files is
\* exhausted: each file of Rejected is reported with
\* logger.info('Archiving rejected action: ...'); nothing else is done.
process_rejected_actions(p) ==
    /\ pc[p] = "approved"
    /\ queue[p] = {}
    /\ pc' = [pc EXCEPT ![p] = "trigger"]
    /\ UNCHANGED <<envVars, vault, log, dashboard, queue, cur, errors, start,
                   moves, historyVars, failed>>

\* trigger_claude_processing: with no file in Needs_Action it returns; else
\* it lists the files with logger.info and calls update_dashboard.
trigger_claude_processing(p) ==
    /\ pc[p] = "trigger"
    /\ dashboard' = IF Glob(vault, NeedsAction) = {} THEN dashboard
                    ELSE UpdateDashboard(vault, dashboard)
    /\ pc' = [pc EXCEPT ![p] = "dashboard"]
    /\ UNCHANGED <<envVars, vault, log, queue, cur, errors, start, moves,
                   historyVars, failed>>

\* run(): self.update_dashboard(), the last call of the pass.
update_dashboard(p) ==
    /\ pc[p] = "dashboard"
    /\ dashboard' = UpdateDashboard(vault, dashboard)
    /\ pc' = [pc EXCEPT ![p] = "sleep"]
    /\ UNCHANGED <<envVars, vault, log, queue, cur, errors, start, moves,
                   historyVars, failed>>

\* run(): time.sleep(check_interval); the pass is over.
Sleep(p) ==
    /\ pc[p] = "sleep"
    /\ pc' = [pc EXCEPT ![p] = "idle"]
    /\ errors' = [errors EXCEPT ![p] = {}]
    /\ start' = [start EXCEPT ![p] = NoStart]
    /\ moves' = [moves EXCEPT ![p] = 0]
    /\ UNCHANGED <<envVars, vault, log, dashboard, queue, cur, historyVars,
                   failed>>

\* One statement of the orchestrator's run loop.
OrchestratorStep(p) ==
    \/ PassStart(p)
    \/ ApprovedRead(p)
    \/ ApprovedLog(p)
    \/ ApprovedMove(p)
    \/ process_rejected_actions(p)
    \/ trigger_claude_processing(p)
    \/ update_dashboard(p)
    \/ Sleep(p)

\* -------------------------------------------------------- specification
AllNames ==
    UNION {Glob(vault, d) : d \in Folders}

Next ==
    \/ \E source \in Sources : on_created(source)
    \/ \E email \in Emails : gmail_create_action_file(email)
    \/ generate_briefing
    \/ \E name \in AllNames : ExternalRoute(name)
    \/ \E name \in AllNames : ExternalApprove(name)
    \/ \E name \in AllNames : ExternalReject(name)
    \/ \E name \in AllNames, stage \in Stages : FaultSetsIn(name, stage)
    \/ \E x \in faults : FaultClears(x)
    \/ Tick
    \/ \E p \in Started : OrchestratorStep(p)

Spec == Init /\ [][Next]_vars

\* Two orchestrator processes started on one vault, with the Gmail watcher,
\* the daily briefing, the external processor and the approver.
NextTwo ==
    \/ \E email \in Emails : gmail_create_action_file(email)
    \/ generate_briefing
    \/ \E name \in AllNames : ExternalRoute(name)
    \/ \E name \in AllNames : ExternalApprove(name)
    \/ \E p \in Orchestrators : OrchestratorStep(p)

SpecTwo == Init /\ [][NextTwo]_vars

\* Every producer of the repository with the external processor, and no
\* orchestrator.
NextProducers ==
    \/ \E source \in Sources : on_created(source)
    \/ \E email \in Emails : gmail_create_action_file(email)
    \/ \E message \in Chats : whatsapp_create_action_file(message)
    \/ \E item \in LinkedInItems : linkedin_create_action_file(item)
    \/ generate_briefing
    \/ generate_audit
    \/ \E name \in AllNames : ExternalRoute(name)
    \/ Tick

SpecProducers == Init /\ [][NextProducers]_vars

\* ------------------------------------- the weekly audit on a drawn vault
\* The clock readings the audit may run at: each weekday, at midnight and
\* at noon, late enough for the oldest file drawn.
AuditTimes ==
    {(MaxAgeDays + 1 + w) * SecondsPerDay + h :
        w \in 0..(DaysPerWeek - 1), h \in {0, SecondsPerDay \div 2}}

\* The values of expires an approval request may carry at time t: none, or
\* a reading an hour before or after t, in any of the zones.
SomeExpires(t) ==
    {NoField} \cup
    {[reading |-> r, zone |-> z] :
        r \in {t - 60 * SecondsPerMinute, t + 60 * SecondsPerMinute},
        z \in Zones}

\* A vault in use when the audit is due: one record in Needs_Action, written
\* up to MaxAgeDays days ago, and one approval request in Pending_Approval.
InitAudit ==
    /\ now \in AuditTimes
    /\ \E a \in 0..MaxAgeDays, e \in SomeExpires(now) :
          LET mtime == now - a * SecondsPerDay
          IN  vault =
                [EmptyVault EXCEPT
                    ![NeedsAction] =
                        {[name |-> <<"FILE", mtime, <<"r", "e", "p">>>>,
                          content |-> <<"FILE", 1>>, mtime |-> mtime]},
                    ![PendingApproval] =
                        {[name |-> <<"APPROVAL", now, <<>>>>,
                          content |-> <<"APPROVAL", 1, e>>, mtime |-> now]}]
    /\ plans = {}
    /\ dashboard = {}
    /\ created = {}
    /\ processed_files = {}
    /\ processed_ids = {}
    /\ briefings = 0
    /\ faults = {}
    /\ log = <<>>
    /\ pc = [p \in Orchestrators |-> "idle"]
    /\ queue = [p \in Orchestrators |-> {}]
    /\ cur = [p \in Orchestrators |-> {}]
    /\ errors = [p \in Orchestrators |-> {}]
    /\ start = [p \in Orchestrators |-> NoStart]
    /\ moves = [p \in Orchestrators |-> 0]
    /\ quiet = 0
    /\ busy = FALSE
    /\ placed = EmptyBag
    /\ processed_chats = {}
    /\ processed_posts = {}
    /\ processed_messages = {}
    /\ batch = [w \in Detectors |-> <<>>]
    /\ others = NoOthers
    /\ audits = 0
    /\ bottlenecks = {}
    /\ failed = EmptyBag

\* The weekly audit beside the approver and the orchestrator.
NextAudit ==
    \/ generate_audit
    \/ \E name \in AllNames : ExternalApprove(name)
    \/ \E p \in Started : OrchestratorStep(p)

SpecAudit == InitAudit /\ [][NextAudit]_vars

\* ------------------------------------------- the watchers, poll by poll
\* chat_key = f"{msg['chat_name']}_{msg['timestamp']}"
chat_key(message) == <<message.chat_name, message.timestamp>>

\* item_key of a LinkedIn item at time t: a post by author and index, a
\* message by sender and day.
item_key(item, t) ==
    IF item.type = "post"
    THEN <<"post", item.author, item.post_idx>>
    ELSE <<"message", item.from, t \div SecondsPerDay>>

\* The lists that hold the elements of a set, in any order.
Orders(S) ==
    {q \in [1..Cardinality(S) -> S] : \A i, j \in DOMAIN q : q[i] = q[j] => i = j}

\* if len(processed) > above: processed = set(list(processed)[-keep:]).  The
\* order of list(a set) is the set's own, so any `keep` of the keys may be
\* the ones that stay: some of `keys` and the rest from the `gone` others.
Trim(keys, gone, above, keep) ==
    IF Cardinality(keys) + gone > above
    THEN {[keys |-> S, gone |-> keep - Cardinality(S)] :
             S \in {T \in SUBSET keys :
                       /\ Cardinality(T) <= keep
                       /\ keep - Cardinality(T) <= gone}}
    ELSE {[keys |-> keys, gone |-> gone]}

\* GmailWatcher.check_for_updates: the unread messages whose id is not in
\* processed_ids, every one of Emails being unread.
gmail_check_for_updates ==
    /\ "gmail" \in DOMAIN batch
    /\ batch["gmail"] = <<>>
    /\ \E new_messages \in Orders({e \in Emails : e.id \notin processed_ids}) :
          batch' = [batch EXCEPT !["gmail"] = new_messages]
    /\ UNCHANGED <<now, vault, producerVars, faults, log, dashboard, passVars,
                   historyVars, placed, processed_chats, processed_posts,
                   processed_messages, others, reportVars>>

\* WhatsAppWatcher.check_for_updates: the scan shows every chat of Chats;
\* the new ones are put into processed_chats at once, and the set is cut.
whatsapp_check_for_updates ==
    /\ "whatsapp" \in DOMAIN batch
    /\ batch["whatsapp"] = <<>>
    /\ LET new == {m \in Chats : chat_key(m) \notin processed_chats}
           added == processed_chats \cup {chat_key(m) : m \in new}
       IN  \E new_messages \in Orders(new),
              cut \in Trim(added, others.chats, TrimChatsAbove, KeepChats) :
                /\ batch' = [batch EXCEPT !["whatsapp"] = new_messages]
                /\ processed_chats' = cut.keys
                /\ others' = [others EXCEPT !.chats = cut.gone]
    /\ UNCHANGED <<now, vault, producerVars, faults, log, dashboard, passVars,
                   historyVars, placed, processed_posts, processed_messages,
                   reportVars>>

\* LinkedInWatcher.check_for_updates: the scan shows every item of
\* LinkedInItems; the new ones are put into processed_posts or
\* processed_messages at once, and both sets are cut.
linkedin_check_for_updates ==
    /\ "linkedin" \in DOMAIN batch
    /\ batch["linkedin"] = <<>>
    /\ LET new == {i \in LinkedInItems :
                      /\ item_key(i, now) \notin processed_posts
                      /\ item_key(i, now) \notin processed_messages}
           posts == processed_posts
                      \cup {item_key(i, now) : i \in {j \in new : j.type = "post"}}
           messages == processed_messages
                      \cup {item_key(i, now) : i \in {j \in new : j.type # "post"}}
       IN  \E new_items \in Orders(new),
              cut \in Trim(posts, others.posts, TrimPostsAbove, KeepPosts),
              cutm \in Trim(messages, others.messages, TrimMessagesAbove,
                            KeepMessages) :
                /\ batch' = [batch EXCEPT !["linkedin"] = new_items]
                /\ processed_posts' = cut.keys
                /\ processed_messages' = cutm.keys
                /\ others' = [others EXCEPT !.posts = cut.gone,
                                            !.messages = cutm.gone]
    /\ UNCHANGED <<now, vault, producerVars, faults, log, dashboard, passVars,
                   historyVars, placed, processed_chats, reportVars>>

\* The file create_action_file of a watcher writes for an item at time t.
ActionFile(w, item, t) ==
    IF w = "gmail"
    THEN [name |-> <<"EMAIL", t, SafeSubject(item)>>,
          content |-> <<"EMAIL", item.id>>]
    ELSE IF w = "whatsapp"
    THEN [name |-> <<"WHATSAPP", t, SafeName(item.chat_name)>>,
          content |-> <<"WHATSAPP", chat_key(item)>>]
    ELSE IF item.type = "post"
    THEN [name |-> <<"LINKEDIN_POST", t, SafeName(item.author)>>,
          content |-> <<"LINKEDIN", item_key(item, t)>>]
    ELSE [name |-> <<"LINKEDIN_MSG", t, SafeName(item.from)>>,
          content |-> <<"LINKEDIN", item_key(item, t)>>]

\* Whether create_action_file of this watcher raises (the disk is full, the
\* folder cannot be written, the Gmail API cannot be reached).
CreateRaises(w) == [name |-> w, stage |-> "write"] \in faults

\* BaseWatcher.run, the body of `for item in items` for the next item:
\* create_action_file writes the file, and the Gmail watcher then adds the id
\* to processed_ids; when it raises, the exception leaves the loop for the
\* except clause of run(), and the items still to come are dropped.
create_action_file(w) ==
    /\ w \in DOMAIN batch
    /\ batch[w] # <<>>
    /\ LET item == Head(batch[w])
           file == ActionFile(w, item, now)
       IN  IF CreateRaises(w)
           THEN /\ batch' = [batch EXCEPT ![w] = <<>>]
                /\ UNCHANGED <<vault, created, processed_ids, historyVars>>
           ELSE /\ batch' = [batch EXCEPT ![w] = Tail(@)]
                /\ vault' = WriteText(vault, NeedsAction, file.name,
                                      file.content, now)
                /\ created' = created \cup {file.content}
                /\ processed_ids' = IF w = "gmail"
                                    THEN processed_ids \cup {item.id}
                                    ELSE processed_ids
                /\ ExternalChange
    /\ UNCHANGED <<now, processed_files, briefings, faults, log, dashboard,
                   passVars, placed, processed_chats, processed_posts,
                   processed_messages, others, reportVars>>

\* An I/O condition sets in: from now on create_action_file of this watcher
\* raises.
CreateFaultSetsIn(w) ==
    /\ w \in DOMAIN batch
    /\ Cardinality(faults) < MaxFaults
    /\ ~CreateRaises(w)
    /\ faults' = faults \cup {[name |-> w, stage |-> "write"]}
    /\ ExternalChange
    /\ UNCHANGED <<now, vault, producerVars, log, dashboard, passVars, placed,
                   watcherVars, reportVars>>

\* The numbers of keys the processed sets may hold of items gone from their
\* source when the watchers have run for a while: none, or as many as the
\* set holds before it is cut.
SomeOthers ==
    {NoOthers,
     [chats |-> TrimChatsAbove, posts |-> TrimPostsAbove,
      messages |-> TrimMessagesAbove, ids |-> TrimChatsAbove,
      files |-> TrimChatsAbove]}

\* One of the watcher processes after it has run for a while, on a vault
\* that was emptied.
InitWatchers ==
    /\ others \in SomeOthers
    /\ \E w \in Detectors : batch = [v \in {w} |-> <<>>]
    /\ now = 0
    /\ vault = EmptyVault
    /\ created = {}
    /\ processed_files = {}
    /\ processed_ids = {}
    /\ briefings = 0
    /\ faults = {}
    /\ log = <<>>
    /\ dashboard = {}
    /\ pc = [p \in Orchestrators |-> "idle"]
    /\ queue = [p \in Orchestrators |-> {}]
    /\ cur = [p \in Orchestrators |-> {}]
    /\ errors = [p \in Orchestrators |-> {}]
    /\ start = [p \in Orchestrators |-> NoStart]
    /\ moves = [p \in Orchestrators |-> 0]
    /\ quiet = 0
    /\ busy = FALSE
    /\ placed = EmptyBag
    /\ processed_chats = {}
    /\ processed_posts = {}
    /\ processed_messages = {}
    /\ audits = 0
    /\ bottlenecks = {}
    /\ plans = {}
    /\ failed = EmptyBag

\* One step of the run loop of a polling watcher.
WatcherStep(w) ==
    \/ w = "gmail" /\ gmail_check_for_updates
    \/ w = "whatsapp" /\ whatsapp_check_for_updates
    \/ w = "linkedin" /\ linkedin_check_for_updates
    \/ create_action_file(w)

\* A watcher while I/O conditions come and go.
NextWatchers ==
    \/ \E source \in Sources : on_created(source)
    \/ \E w \in Watchers : WatcherStep(w)
    \/ \E w \in Watchers : CreateFaultSetsIn(w)
    \/ \E x \in faults : FaultClears(x)
    \/ Tick

SpecWatchers == InitWatchers /\ [][NextWatchers]_vars

\* The run loops go on: time.sleep(check_interval) returns and `while True`
\* takes the next step.
SpecWatchersLive ==
    SpecWatchers /\ \A w \in Watchers : WF_vars(WatcherStep(w))

\* ------------------------------------------------- a pass that is aborted
\* The process is stopped while a pass is executing (KeyboardInterrupt, a
\* kill, a reboot) and started again: run() begins at the top of its loop
\* and nothing of the aborted pass is kept but the files and the log.
Restart(p) ==
    /\ pc[p] \notin {"idle", "sleep"}
    /\ pc' = [pc EXCEPT ![p] = "idle"]
    /\ queue' = [queue EXCEPT ![p] = {}]
    /\ cur' = [cur EXCEPT ![p] = {}]
    /\ errors' = [errors EXCEPT ![p] = {}]
    /\ start' = [start EXCEPT ![p] = NoStart]
    /\ moves' = [moves EXCEPT ![p] = 0]
    /\ ExternalChange
    /\ UNCHANGED <<envVars, vault, log, dashboard, failed>>

\* The orchestrator, stopped and started again at any point, with the Gmail
\* watcher, the external processor and the approver.
NextRestart ==
    \/ \E email \in Emails : gmail_create_action_file(email)
    \/ \E name \in AllNames : ExternalRoute(name)
    \/ \E name \in AllNames : ExternalApprove(name)
    \/ \E p \in Started : OrchestratorStep(p)
    \/ \E p \in Started : Restart(p)

SpecRestart == Init /\ [][NextRestart]_vars

\* ------------------------------------ a record that fails pass after pass
\* A vault in use: one message of Gmail was filed, routed and approved, and
\* lies in Approved.
InitStall ==
    /\ now = 0
    /\ \E email \in Emails :
          LET name == <<"EMAIL", 0, SafeSubject(email)>>
          IN  /\ vault =
                    [EmptyVault EXCEPT
                        ![Approved] =
                            {[name |-> name, content |-> <<"EMAIL", email.id>>,
                              mtime |-> 0]}]
              /\ created = {<<"EMAIL", email.id>>}
              /\ processed_ids = {email.id}
              /\ placed = SetToBag({name})
    /\ plans = {}
    /\ dashboard = {}
    /\ processed_files = {}
    /\ briefings = 0
    /\ faults = {}
    /\ log = <<>>
    /\ pc = [p \in Orchestrators |-> "idle"]
    /\ queue = [p \in Orchestrators |-> {}]
    /\ cur = [p \in Orchestrators |-> {}]
    /\ errors = [p \in Orchestrators |-> {}]
    /\ start = [p \in Orchestrators |-> NoStart]
    /\ moves = [p \in Orchestrators |-> 0]
    /\ quiet = 0
    /\ busy = FALSE
    /\ processed_chats = {}
    /\ processed_posts = {}
    /\ processed_messages = {}
    /\ batch = [w \in Detectors |-> <<>>]
    /\ others = NoOthers
    /\ audits = 0
    /\ bottlenecks = {}
    /\ failed = EmptyBag

\* The orchestrator and the weekly audit while I/O conditions come and go.
NextStall ==
    \/ \E name \in AllNames, stage \in Stages : FaultSetsIn(name, stage)
    \/ \E x \in faults : FaultClears(x)
    \/ generate_audit
    \/ Tick
    \/ \E p \in Started : OrchestratorStep(p)

SpecStall == InitStall /\ [][NextStall]_vars

\* --------------------------------------- the week of a file, drawn vault
\* A vault in use when the audit is due: one record in Needs_Action, written
\* a number of half days ago, up to MaxAgeDays days.
InitWeek ==
    /\ now \in AuditTimes
    /\ \E a \in 0..(2 * MaxAgeDays) :
          LET mtime == now - a * (SecondsPerDay \div 2)
          IN  vault =
                [EmptyVault EXCEPT
                    ![NeedsAction] =
                        {[name |-> <<"FILE", mtime, <<"r", "e", "p">>>>,
                          content |-> <<"FILE", 1>>, mtime |-> mtime]}]
    /\ plans = {}
    /\ dashboard = {}
    /\ created = {}
    /\ processed_files = {}
    /\ processed_ids = {}
    /\ briefings = 0
    /\ faults = {}
    /\ log = <<>>
    /\ pc = [p \in Orchestrators |-> "idle"]
    /\ queue = [p \in Orchestrators |-> {}]
    /\ cur = [p \in Orchestrators |-> {}]
    /\ errors = [p \in Orchestrators |-> {}]
    /\ start = [p \in Orchestrators |-> NoStart]
    /\ moves = [p \in Orchestrators |-> 0]
    /\ quiet = 0
    /\ busy = FALSE
    /\ placed = EmptyBag
    /\ processed_chats = {}
    /\ processed_posts = {}
    /\ processed_messages = {}
    /\ batch = [w \in Detectors |-> <<>>]
    /\ others = NoOthers
    /\ audits = 0
    /\ bottlenecks = {}
    /\ failed = EmptyBag

\* The weekly audit and the external processor.
NextWeek ==
    \/ generate_audit
    \/ \E name \in AllNames : ExternalRoute(name)

SpecWeek == InitWeek /\ [][NextWeek]_vars

\* ------------------------------------- update_dashboard on a drawn vault
\* k files of one kind, as a folder may hold them.
SomeFiles(kind, k) ==
    {[name |-> <<kind, i, <<>>>>, content |-> <<kind, i>>, mtime |-> 0] :
        i \in 1..k}

\* The files Plans may hold.
SomePlans ==
    {[name |-> "PLAN_1", status |-> "in_progress"],
     [name |-> "PLAN_2", status |-> "completed"]}

\* A vault in use, with a Dashboard.md that is missing or was created on an
\* earlier day with the counts of that day, and the orchestrator before the
\* last call of its pass.
InitDashboard ==
    /\ now = 0
    /\ \E na, dn, pa \in 0..MaxCount :
          vault = [EmptyVault EXCEPT ![NeedsAction] = SomeFiles("FILE", na),
                                     ![Done] = SomeFiles("EMAIL", dn),
                                     ![PendingApproval] =
                                         SomeFiles("APPROVAL", pa)]
    /\ plans \in SUBSET SomePlans
    /\ \/ dashboard = {}
       \/ \E na, dn, pa, pl \in 0..MaxCount :
             dashboard = {CreateDashboardRows(na, dn, pa, pl)}
    /\ created = {}
    /\ processed_files = {}
    /\ processed_ids = {}
    /\ briefings = 0
    /\ faults = {}
    /\ log = <<>>
    /\ pc = [p \in Orchestrators |->
                IF p \in Started THEN "dashboard" ELSE "idle"]
    /\ queue = [p \in Orchestrators |-> {}]
    /\ cur = [p \in Orchestrators |-> {}]
    /\ errors = [p \in Orchestrators |-> {}]
    /\ start = [p \in Orchestrators |-> NoStart]
    /\ moves = [p \in Orchestrators |-> 0]
    /\ quiet = 0
    /\ busy = FALSE
    /\ placed = EmptyBag
    /\ processed_chats = {}
    /\ processed_posts = {}
    /\ processed_messages = {}
    /\ batch = [w \in Detectors |-> <<>>]
    /\ others = NoOthers
    /\ audits = 0
    /\ bottlenecks = {}
    /\ failed = EmptyBag

\* run(): self.update_dashboard(), with every count row of the file.
update_dashboard_rows(p) ==
    /\ pc[p] = "dashboard"
    /\ dashboard' = UpdateDashboardRows(vault, plans, dashboard)
    /\ pc' = [pc EXCEPT ![p] = "sleep"]
    /\ UNCHANGED <<envVars, vault, log, queue, cur, errors, start, moves,
                   historyVars, failed>>

NextDashboard ==
    \/ \E p \in Started : update_dashboard_rows(p)
    \/ \E p \in Started : Sleep(p)

SpecDashboard == InitDashboard /\ [][NextDashboard]_vars

\* ================================================================ claims
\* The files that a step puts into a folder.
Arrived(d) == vault'[d] \ vault[d]

\* The files that a step takes out of a folder.
Left(d) == vault[d] \ vault'[d]

\* A step of the orchestrator p.
StepOf(p) == <<pc[p], queue[p]>> # <<pc'[p], queue'[p]>>

\* C1: every record ever created lies in exactly one folder of the vault:
\* none is lost, none lies in two folders.
C1_ExactlyOnePartition ==
    \A c \in created : Cardinality(FoldersOf(vault, c)) = 1

\* C2: of two passes in succession with no external change since the first
\* began, the second moves nothing and rewrites the dashboard with the
\* counts it already shows.
C2_SecondPassNoOp ==
    [][(quiet = 2 /\ quiet' = 2) =>
        (vault' = vault /\ dashboard' = dashboard /\ moves' = moves)]_vars

\* The second of two such passes is over, and the first had moved a file.
C2_Witness ==
    \E p \in Orchestrators : quiet = 2 /\ busy /\ pc[p] = "sleep"

\* C3: no step makes a name that is in Done appear in another folder.
C3_NoRegression ==
    [][\A n \in Glob(vault, Done) : \A d \in Folders \ {Done} :
          Exists(vault', d, n) => Exists(vault, d, n)]_vars

\* C4: a file that arrives in Done was in Approved just before, and no step
\* of the orchestrator changes Needs_Action or Pending_Approval.
C4_DoneOnlyFromApproved ==
    [][/\ \A f \in Arrived(Done) : f \in vault[Approved]
       /\ \A p \in Orchestrators : StepOf(p) =>
             /\ vault'[NeedsAction] = vault[NeedsAction]
             /\ vault'[PendingApproval] = vault[PendingApproval]]_vars

\* A pass has moved a file to Done while another waits in Pending_Approval.
C4_Witness ==
    /\ vault[Done] # {}
    /\ vault[PendingApproval] # {}
    /\ \E p \in Orchestrators : moves[p] > 0

\* C5: at the end of a pass that moved one file, the file lies in Done and
\* the dashboard's count of completed tasks is one more than the number of
\* files Done held when the pass began.
C5_DoneCountGrowsByOne ==
    \A p \in Orchestrators :
        (pc[p] = "sleep" /\ moves[p] = 1 /\ errors[p] = {}) =>
            /\ Exists(vault, Done, log[Len(log)].name)
            /\ \A d \in dashboard : d.completed_tasks = start[p].done + 1

\* C6: trigger_claude_processing leaves no file it found in Needs_Action
\* there: each is in Pending_Approval or in Done afterwards.
C6_NeedsActionDrained ==
    [][\A p \in Orchestrators :
          (pc[p] = "trigger" /\ pc'[p] = "dashboard") =>
              \A f \in vault[NeedsAction] :
                  /\ f \notin vault'[NeedsAction]
                  /\ f \in vault'[PendingApproval] \cup vault'[Done]]_vars

\* C7: process_rejected_actions leaves no file it found in Rejected there.
C7_RejectedArchived ==
    [][\A p \in Orchestrators :
          (pc[p] = "approved" /\ pc'[p] = "trigger") =>
              \A f \in vault[Rejected] : f \notin vault'[Rejected]]_vars

\* C8: a file leaves Pending_Approval only by a step of the approver; no
\* step of the orchestrator, of a producer or of the briefing takes one out.
C8_NoSelfApproval ==
    [][Left(PendingApproval) # {} =>
          \E n \in Glob(vault, PendingApproval) :
              ExternalApprove(n) \/ ExternalReject(n)]_vars

\* A pass and a briefing have run to their end with a file pending.
C8_Witness ==
    /\ vault[PendingApproval] # {}
    /\ briefings > 0
    /\ \E p \in Orchestrators : pc[p] = "sleep"

\* C9: a file whose processing raised in this pass is still in Approved,
\* and the action log holds a failure entry that names it.
C9_FailureLogged ==
    \A p \in Orchestrators : \A n \in errors[p] :
        /\ Exists(vault, Approved, n)
        /\ \E i \in 1..Len(log) :
              log[i].name = n /\ log[i].entry # "Processed approval"

\* C10: every file in Done has an entry in the action log, and when a file
\* arrives in Done the last entry of the log is its own, written in this
\* pass by an earlier step.
C10_LoggedBeforeMove ==
    /\ [](\A f \in vault[Done] :
            \E i \in 1..Len(log) : log[i] = LogEntry(f.name))
    /\ [][\A f \in Arrived(Done) :
            /\ log' = log
            /\ \E p \in Orchestrators :
                  /\ Len(log) > start[p].loglen
                  /\ log[Len(log)] = LogEntry(f.name)]_vars

\* A pass has logged a file and moved it.
C10_Witness ==
    \E p \in Orchestrators :
        /\ moves[p] > 0
        /\ Len(log) > start[p].loglen
        /\ Exists(vault, Done, log[Len(log)].name)

\* The number of 'Processed approval' entries of the action log that name n.
Processed(n) == Cardinality({i \in 1..Len(log) : log[i] = LogEntry(n)})

\* C11: no record is processed twice: the action log never holds more
\* 'Processed approval' entries for a name than records of that name were
\* placed in Approved.
C11_ProcessedOnce ==
    \A i \in 1..Len(log) :
        Processed(log[i].name) <= CopiesIn(log[i].name, placed)

\* C12: when the file a pass is about to move is no longer in Approved
\* (another pass has moved it), the attempt leaves every folder as it was
\* and the pass goes back to the head of its loop with the files it has
\* still to iterate; no record ever lies in two folders.
C12_ConflictContinues ==
    /\ [](\A c \in created : Cardinality(FoldersOf(vault, c)) <= 1)
    /\ [][\A p \in Orchestrators : \A f \in cur[p] :
            (pc[p] = "move" /\ pc'[p] # "move"
                /\ ~Exists(vault, f[1], f[2])) =>
                    /\ vault' = vault
                    /\ pc'[p] = "approved"
                    /\ queue'[p] = queue[p]]_vars

\* A pass logged a file that the other pass moved first, failed to move it,
\* and afterwards logged and moved another file.
C12_Witness ==
    \E p, q \in Orchestrators : \E n \in errors[p] :
        /\ p # q
        /\ Exists(vault, Done, n)
        /\ moves[p] = 1 /\ moves[q] = 1
        /\ Len(log) = 3
        /\ log[3].name # n
        /\ Exists(vault, Done, log[3].name)

\* A pass is executing from the listing of Approved to the last
\* update_dashboard.
Executing(p) == pc[p] \notin {"idle", "sleep"}

\* C13: at most one pass is executing at any instant.
C13_SingleFlight ==
    Cardinality({p \in Orchestrators : Executing(p)}) <= 1

\* C14: a pass that is past its loop has iterated every file it listed, has
\* moved each of them that raised no error, and a pass goes to sleep only
\* from its last update_dashboard, with the dashboard's counts those of the
\* folders.
C14_ErrorsIsolated ==
    /\ [](\A p \in Orchestrators :
            pc[p] \in {"trigger", "dashboard", "sleep"} =>
                /\ queue[p] = {} /\ cur[p] = {}
                /\ moves[p] + Cardinality(errors[p]) = start[p].found)
    /\ [][\A p \in Orchestrators :
            (pc'[p] = "sleep" /\ pc[p] # "sleep") =>
                /\ pc[p] = "dashboard"
                /\ \E d \in dashboard' :
                      /\ d.pending_actions = CountFiles(vault', NeedsAction)
                      /\ d.completed_tasks = CountFiles(vault', Done)
                      /\ d.awaiting_approval =
                             CountFiles(vault', PendingApproval)]_vars

\* A pass is over in which one file raised an error and another was moved.
C14_Witness ==
    \E p \in Orchestrators :
        pc[p] = "sleep" /\ errors[p] # {} /\ moves[p] > 0

\* A producer creates a record in this step.
Creates == created' # created

\* The files a step has written for the records it creates.
NewFiles ==
    {f \in UNION {vault'[d] : d \in Folders} : f.content \in created' \ created}

\* C15: a step that creates a record leaves every record of the store where
\* it is and as it is, and puts a name the store already holds into no
\* further folder.
C15_DuplicateIdRejected ==
    [][Creates =>
          \A d \in Folders : \A f \in vault[d] :
              /\ f \in vault'[d]
              /\ \A e \in Folders \ {d} :
                    Exists(vault', e, f.name) => Exists(vault, e, f.name)]_vars

\* C16: the records the producers have created bear as many names as there
\* are records: no two of them were given the same name.
C16_UniqueIds == Cardinality(AllNames) = Cardinality(created)

\* C17: a step that creates a record writes its file to Needs_Action and to
\* no other folder, and changes no other folder.
C17_CreatedInNeedsAction ==
    [][Creates =>
          /\ NewFiles # {}
          /\ NewFiles \subseteq vault'[NeedsAction]
          /\ \A d \in Folders \ {NeedsAction} : vault'[d] = vault[d]]_vars

\* The weekly audit has written its alert and a watcher of LinkedIn or
\* WhatsApp a record, and both lie in Needs_Action.
C17_Witness ==
    /\ \E f \in vault[NeedsAction] : f.content[1] = "AUDIT"
    /\ \E f \in vault[NeedsAction] : f.content[1] \in {"LINKEDIN", "WHATSAPP"}

\* The rows of a dashboard all show the counts of the folders they stand
\* for.
ShowsCounts(d, v, pl) ==
    /\ d.pending_actions = CountFiles(v, NeedsAction)
    /\ d.files_in_needs_action = CountFiles(v, NeedsAction)
    /\ d.watcher_detections = CountFiles(v, NeedsAction)
    /\ d.completed_tasks = CountFiles(v, Done)
    /\ d.tasks_completed = CountFiles(v, Done)
    /\ d.files_processed_today = CountFiles(v, Done)
    /\ d.awaiting_approval = CountFiles(v, PendingApproval)
    /\ d.approvals_pending = CountFiles(v, PendingApproval)
    /\ d.plans_created = Cardinality(pl)
    /\ d.metrics_plans_created = Cardinality(pl)
    /\ d.stats_plans_created = Cardinality(pl)

\* C18: when update_dashboard has completed, Dashboard.md exists and every
\* count row shows the number of files of its folder, whatever the file
\* held before.
C18_SnapshotCannotDrift ==
    [][\A p \in Orchestrators :
          (pc[p] = "dashboard" /\ pc'[p] = "sleep") =>
              /\ dashboard' # {}
              /\ \A d \in dashboard' : ShowsCounts(d, vault', plans')]_vars

\* The approval requests of Pending_Approval whose expires lies in the past.
ExpiredApprovals ==
    {f \in vault[PendingApproval] :
        /\ extract_expires(f.content) # NoField
        /\ Instant(extract_expires(f.content)) < now}

\* C19: an expired approval request leaves Pending_Approval only by the
\* approver's hand, and the bottleneck list of a weekly audit holds an
\* 'Approval expired' entry for each of them.
C19_ExpiryAdvisory ==
    [][/\ \A f \in ExpiredApprovals :
             \/ f \in vault'[PendingApproval]
             \/ \E n \in Glob(vault, PendingApproval) :
                   ExternalApprove(n) \/ ExternalReject(n)
       /\ audits' # audits =>
             \A f \in ExpiredApprovals :
                 [issue |-> "Approval expired", item |-> f.name]
                     \in bottlenecks']_vars

\* C20: the bottleneck list of a weekly audit holds an entry for every file
\* of Needs_Action that is more than StaleDays whole days old.
C20_StaleListed ==
    [][audits' # audits =>
          \A f \in vault[NeedsAction] :
              age_days(now, f) > StaleDays =>
                  [issue |-> "Item in Needs_Action", item |-> f.name]
                      \in bottlenecks']_vars

\* The names whose processing has raised in three passes in a row.
Stalled == {n \in AllNames : CopiesIn(n, failed) >= 3}

\* C21: a record whose processing has raised in three passes in a row stays
\* in Approved and is listed again by the next pass; the file is annotated
\* by the step of the third failure, and the bottleneck list of a weekly
\* audit holds an entry for it.
C21_StalledFlagged ==
    /\ [](\A n \in DOMAIN failed : Exists(vault, Approved, n))
    /\ [][\A p \in Orchestrators :
            (pc[p] = "idle" /\ pc'[p] = "approved") =>
                \A n \in Stalled : <<Approved, n>> \in queue'[p]]_vars
    /\ [][\A n \in Stalled' \ Stalled :
            FileAt(vault', Approved, n) # FileAt(vault, Approved, n)]_vars
    /\ [][audits' # audits =>
            \A n \in Stalled : \E b \in bottlenecks' : b.item = n]_vars

\* extract_field(content, 'action') returns None: the header of the file
\* has no line 'action: ...'.  No producer writes such a line; an approval
\* request is expected to carry one.
ActionMissing(content) == content[1] # "APPROVAL"

\* C22: a file of Approved that cannot be read, or whose header has no
\* action, is taken out of Approved by no step.
C22_CorruptStays ==
    [][\A f \in vault[Approved] :
          (Raises(f.name, "read") \/ ActionMissing(f.content)) =>
              f \in vault'[Approved]]_vars

\* What a pass that runs to its end with no error makes of a vault: every
\* file of Approved is in Done, in the place of a file of its name there.
PassResult(v) ==
    [v EXCEPT ![Approved] = {},
              ![Done] = {f \in @ : ~Exists(v, Approved, f.name)}
                            \cup v[Approved]]

\* The pass of p is aborted in this step.
Aborted(p) == pc[p] \notin {"idle", "sleep"} /\ pc'[p] = "idle"

\* C23: an abort changes no folder; a record that lies in exactly one
\* folder still does after any step of a pass, aborted or not; no such step
\* changes what a complete pass makes of the vault, and a pass that comes to
\* the end of its loop with no error has left none of its files in Approved.
C23_AbortTolerated ==
    /\ [][\A p \in Orchestrators : Aborted(p) => vault' = vault]_vars
    /\ [][\A p \in Orchestrators : StepOf(p) =>
            /\ \A c \in created :
                  Cardinality(FoldersOf(vault, c)) = 1 =>
                      Cardinality(FoldersOf(vault', c)) = 1
            /\ PassResult(vault') = PassResult(vault)
            /\ (pc'[p] = "trigger" /\ errors[p] = {}) =>
                  Glob(vault', Approved) \cap {f[2] : f \in queue[p]} = {}]_vars

\* C24: a file that arrives in Done bears the time of the move as its
\* modification time, and no earlier time than it bore in Approved.
C24_TransitionStamped ==
    [][\A f \in Arrived(Done) :
          /\ f.mtime = now'
          /\ \A g \in vault[Approved] :
                g.name = f.name => g.mtime <= f.mtime]_vars

\* A run of the daily briefing or of the weekly audit.
Reports == briefings' # briefings \/ audits' # audits

\* C26: a run of the daily briefing or of the weekly audit leaves every
\* folder of the vault with the files it had.
C26_ReportsReadOnly ==
    [][Reports => \A d \in Folders : vault'[d] = vault[d]]_vars

\* Monday, 00:00, of the calendar week that holds a clock reading.
MondayMidnight(t) == t - (t % (DaysPerWeek * SecondsPerDay))

\* The files of a folder modified in the calendar week from this Monday.
InCalendarWeek(v, folder, monday) ==
    {f \in v[folder] :
        /\ monday <= f.mtime
        /\ f.mtime < monday + DaysPerWeek * SecondsPerDay}

\* C27: for every folder, get_files_in_week from get_week_start(now) gives
\* the files modified in the calendar week of now, and
\* get_previous_week_files those of the calendar week before.
C27_CalendarWeek ==
    \A d \in Folders :
        /\ get_files_in_week(vault, d, get_week_start(now))
              = InCalendarWeek(vault, d, MondayMidnight(now))
        /\ get_previous_week_files(vault, d, get_week_start(now))
              = InCalendarWeek(vault, d,
                    MondayMidnight(now) - DaysPerWeek * SecondsPerDay)

\* The records of a vault, by name and content, wherever they lie.
Records(v) ==
    {<<f.name, f.content>> : f \in UNION {v[d] : d \in Folders}}

\* C30: a step of a pass leaves Needs_Action, Pending_Approval and Rejected
\* with the files they had, and every record of the vault is still there
\* after it, under its name and with its content.
C30_PassFrame ==
    [][\A p \in Orchestrators : StepOf(p) =>
          /\ vault'[NeedsAction] = vault[NeedsAction]
          /\ vault'[PendingApproval] = vault[PendingApproval]
          /\ vault'[Rejected] = vault[Rejected]
          /\ Records(vault) \subseteq Records(vault')]_vars

\* The number of keys a processed set holds.
Size(keys, gone) == Cardinality(keys) + gone

\* C25: the processed set of every detector holds at most N keys, N being
\* the greatest number the code lets a set hold before it cuts it;
\* processed_messages, at most its own such number.
C25_DedupBounded ==
    /\ Size(processed_chats, others.chats) <= TrimChatsAbove
    /\ Size(processed_posts, others.posts) <= TrimPostsAbove
    /\ Size(processed_messages, others.messages) <= TrimMessagesAbove
    /\ Size(processed_ids, others.ids) <= TrimChatsAbove
    /\ Size(processed_files, others.files) <= TrimChatsAbove

\* check_for_updates of watcher w has returned the item as new, and run()
\* has not given it to create_action_file yet.
Detected(w, item) ==
    /\ w \in DOMAIN batch
    /\ \E i \in 1..Len(batch[w]) : batch[w][i] = item

\* Needs_Action holds an action file of the item.
HasFile(w, item) ==
    \E f \in vault[NeedsAction] : f.content = ActionFile(w, item, now).content

\* C28: when create_action_file raises only for a time, every item that
\* check_for_updates has returned as new gets its action file in
\* Needs_Action, the items staying visible at the source.
C28_NoItemLost ==
    <>[](faults = {}) =>
        /\ \A item \in Emails :
              Detected("gmail", item) ~> HasFile("gmail", item)
        /\ \A item \in Chats :
              Detected("whatsapp", item) ~> HasFile("whatsapp", item)
        /\ \A item \in LinkedInItems :
              Detected("linkedin", item) ~> HasFile("linkedin", item)

\* C29: no action file is written for an item that has had one.
C29_AtMostOneFile ==
    [][\A f \in Arrived(NeedsAction) : f.content \notin created]_vars

====
